---- MODULE Spec2Model ----
(***************************************************************************)
(* Model of the camera-extraction batch pipeline                            *)
(* (src/process_camera_data.py): the timestamp resolvers                    *)
(* get_photo_datetime / get_video_datetime, the sequence namer              *)
(* generate_name_with_counter with its process-wide date_counters table,    *)
(* the dispatcher process_file and the tree walker recurse_and_process.     *)
(*                                                                          *)
(* Text read from files (EXIF bytes, ffprobe output, paths) is a tuple of   *)
(* one-character strings, so that parsing is computed; text the program     *)
(* builds (date keys, file names) is a TLA+ string built with \o.           *)
(* An exception is a value: a call's result is a record whose field exc is  *)
(* "" for a normal return and the exception's class name otherwise.         *)
(***************************************************************************)
EXTENDS Integers, Sequences, FiniteSets, TLC

(***************************************************************************)
(* Bounds of the model.                                                     *)
(***************************************************************************)
\* number of files os.walk finds under INPUT_DIR
NumFiles == 4
\* number of times the script is run over the same input/output pair
MaxRuns == 2
\* number of distinct mtimes a file may carry
NumTimestamps == 2

(***************************************************************************)
(* Characters and decimal text.                                             *)
(***************************************************************************)
Digits == <<"0", "1", "2", "3", "4", "5", "6", "7", "8", "9">>

IsDigit(c) == \E i \in 1..10 : Digits[i] = c

DigitVal(c) == (CHOOSE i \in 1..10 : Digits[i] = c) - 1

RECURSIVE Num(_)
\* int() of a tuple of decimal digits
Num(s) == IF s = <<>> THEN 0 ELSE Num(SubSeq(s, 1, Len(s) - 1)) * 10 + DigitVal(s[Len(s)])

RECURSIVE ToStr(_)
\* str(n) for n >= 0
ToStr(n) == IF n < 10 THEN Digits[n + 1] ELSE ToStr(n \div 10) \o Digits[(n % 10) + 1]

RECURSIVE Zeros(_)
Zeros(k) == IF k <= 0 THEN "" ELSE "0" \o Zeros(k - 1)

\* format(n, "0<w>d"): zero-padded to at least w characters, never truncated
ZeroPad(n, w) == Zeros(w - Len(ToStr(n))) \o ToStr(n)

RECURSIVE Join(_)
\* the string made of a tuple of characters
Join(s) == IF s = <<>> THEN "" ELSE Head(s) \o Join(Tail(s))

Upper == <<"A", "B", "C", "D", "E", "F", "G", "H", "I", "J", "K", "L", "M",
           "N", "O", "P", "Q", "R", "S", "T", "U", "V", "W", "X", "Y", "Z">>

Lower == <<"a", "b", "c", "d", "e", "f", "g", "h", "i", "j", "k", "l", "m",
           "n", "o", "p", "q", "r", "s", "t", "u", "v", "w", "x", "y", "z">>

LowerChar(c) == IF \E i \in 1..26 : Upper[i] = c
                THEN Lower[CHOOSE i \in 1..26 : Upper[i] = c]
                ELSE c

\* str.lower()
lower(s) == [i \in 1..Len(s) |-> LowerChar(s[i])]

IsSpace(c) == c \in {" ", "\n", "\t", "\r"}

RECURSIVE LStrip(_)
LStrip(s) == IF s # <<>> /\ IsSpace(Head(s)) THEN LStrip(Tail(s)) ELSE s

RECURSIVE RStrip(_)
RStrip(s) == IF s # <<>> /\ IsSpace(s[Len(s)]) THEN RStrip(SubSeq(s, 1, Len(s) - 1)) ELSE s

\* str.strip()
strip(s) == RStrip(LStrip(s))

RECURSIVE ReplaceZ(_)
\* str.replace('Z', '+00:00'): every Z, not only a trailing one
ReplaceZ(s) ==
    IF s = <<>> THEN <<>>
    ELSE (IF Head(s) = "Z" THEN <<"+", "0", "0", ":", "0", "0">> ELSE <<Head(s)>>)
         \o ReplaceZ(Tail(s))

\* os.path.splitext(path)[1]: from the last dot of the base name to the end;
\* dots that lead the base name do not start an extension
splitext(path) ==
    LET seps == {i \in 1..Len(path) : path[i] = "/"}
        base == IF seps = {} THEN 1 ELSE 1 + CHOOSE i \in seps : \A j \in seps : j <= i
        dots == {i \in base..Len(path) :
                    /\ path[i] = "."
                    /\ \E j \in base..(i - 1) : path[j] # "."}
    IN  IF dots = {} THEN <<>>
        ELSE SubSeq(path, CHOOSE i \in dots : \A j \in dots : j <= i, Len(path))

(***************************************************************************)
(* datetime values.  aware/offset model tzinfo (offset in minutes).         *)
(***************************************************************************)
DT(y, mo, d, h, mi, s) ==
    [year |-> y, month |-> mo, day |-> d, hour |-> h, minute |-> mi, second |-> s,
     aware |-> FALSE, offset |-> 0]

\* the value of a variable that was never bound
NoDT == DT(0, 0, 0, 0, 0, 0)

IsLeap(y) == (y % 4 = 0 /\ y % 100 # 0) \/ y % 400 = 0

DaysInMonth(y, m) ==
    IF m = 2 THEN (IF IsLeap(y) THEN 29 ELSE 28)
    ELSE IF m \in {4, 6, 9, 11} THEN 30 ELSE 31

ValidDT(y, mo, d, h, mi, s) ==
    /\ y \in 1..9999
    /\ mo \in 1..12
    /\ d \in 1..DaysInMonth(y, mo)
    /\ h \in 0..23
    /\ mi \in 0..59
    /\ s \in 0..59

\* datetime.fromtimestamp(ts) for ts >= 0, local time zone UTC
\* (days-to-civil conversion of the proleptic Gregorian calendar)
fromtimestamp(ts) ==
    LET days == ts \div 86400
        rem  == ts % 86400
        z    == days + 719468
        era  == z \div 146097
        doe  == z - era * 146097
        yoe  == (doe - doe \div 1460 + doe \div 36524 - doe \div 146096) \div 365
        doy  == doe - (365 * yoe + yoe \div 4 - yoe \div 100)
        mp   == (5 * doy + 2) \div 153
        d    == doy - (153 * mp + 2) \div 5 + 1
        m    == IF mp < 10 THEN mp + 3 ELSE mp - 9
        y    == yoe + era * 400 + (IF m <= 2 THEN 1 ELSE 0)
    IN  DT(y, m, d, rem \div 3600, (rem % 3600) \div 60, rem % 60)

\* datetime.strptime(s, "%Y:%m:%d %H:%M:%S") on fixed-width fields:
\* exc is "" and val the datetime, or exc is "ValueError"
strptime(s) ==
    LET shape == /\ Len(s) = 19
                 /\ s[5] = ":" /\ s[8] = ":" /\ s[11] = " " /\ s[14] = ":" /\ s[17] = ":"
                 /\ \A i \in (1..19) \ {5, 8, 11, 14, 17} : IsDigit(s[i])
        y  == Num(SubSeq(s, 1, 4))
        mo == Num(SubSeq(s, 6, 7))
        d  == Num(SubSeq(s, 9, 10))
        h  == Num(SubSeq(s, 12, 13))
        mi == Num(SubSeq(s, 15, 16))
        sc == Num(SubSeq(s, 18, 19))
    IN  IF shape /\ ValidDT(y, mo, d, h, mi, sc)
        THEN [exc |-> "", val |-> DT(y, mo, d, h, mi, sc)]
        ELSE [exc |-> "ValueError", val |-> NoDT]

\* the time-of-day part HH[:MM[:SS[.fff[fff]]]] of an ISO string
IsoTimeOk(t) ==
    /\ Len(t) \in {2, 5, 8, 12, 15}
    /\ \A i \in 1..Len(t) :
          IF i \in {3, 6} THEN t[i] = ":"
          ELSE IF i = 9 THEN t[i] = "."
          ELSE IsDigit(t[i])

\* the offset part +HH:MM / -HH:MM
IsoTzOk(z) ==
    /\ Len(z) = 6
    /\ z[1] \in {"+", "-"}
    /\ z[4] = ":"
    /\ \A i \in {2, 3, 5, 6} : IsDigit(z[i])
    /\ Num(SubSeq(z, 2, 3)) \in 0..23
    /\ Num(SubSeq(z, 5, 6)) \in 0..59

\* datetime.fromisoformat(s): YYYY-MM-DD[*HH[:MM[:SS[.fff[fff]]]][+HH:MM]]
fromisoformat(s) ==
    LET dateOk == /\ Len(s) >= 10
                  /\ s[5] = "-" /\ s[8] = "-"
                  /\ \A i \in {1, 2, 3, 4, 6, 7, 9, 10} : IsDigit(s[i])
        rest   == IF Len(s) >= 12 THEN SubSeq(s, 12, Len(s)) ELSE <<>>
        signs  == {i \in 1..Len(rest) : rest[i] \in {"+", "-"}}
        cut    == IF signs = {} THEN Len(rest) + 1
                  ELSE CHOOSE i \in signs : \A j \in signs : i <= j
        t      == SubSeq(rest, 1, cut - 1)
        z      == SubSeq(rest, cut, Len(rest))
        field(a, b) == IF Len(t) >= b THEN Num(SubSeq(t, a, b)) ELSE 0
        y  == Num(SubSeq(s, 1, 4))
        mo == Num(SubSeq(s, 6, 7))
        d  == Num(SubSeq(s, 9, 10))
        ok == /\ dateOk
              /\ Len(s) # 11
              /\ Len(s) > 10 => (IsoTimeOk(t) /\ (z = <<>> \/ IsoTzOk(z)))
              /\ ValidDT(y, mo, d, field(1, 2), field(4, 5), field(7, 8))
    IN  IF ok
        THEN [exc |-> "",
              val |-> [DT(y, mo, d, field(1, 2), field(4, 5), field(7, 8))
                         EXCEPT !.aware = (z # <<>>),
                                !.offset = IF z = <<>> THEN 0
                                           ELSE (IF z[1] = "-" THEN -1 ELSE 1)
                                                * (Num(SubSeq(z, 2, 3)) * 60
                                                   + Num(SubSeq(z, 5, 6)))]]
        ELSE [exc |-> "ValueError", val |-> NoDT]

\* dt.strftime("%Y_%m_%d")
strftime(dt) == ToStr(dt.year) \o "_" \o ZeroPad(dt.month, 2) \o "_" \o ZeroPad(dt.day, 2)

(***************************************************************************)
(* Configuration (lines 12-22) and the inputs the environment supplies.     *)
(***************************************************************************)
PHOTO_EXTENSIONS == {".jpg", ".jpeg", ".png"}

VIDEO_EXTENSIONS == {".mp4", ".mkv", ".avi", ".mov", ".wmv", ".flv", ".webm", ".mpg",
                     ".mpeg", ".m4v", ".3gp", ".3g2", ".ts", ".mts", ".m2ts", ".vob"}

\* the values MODE is documented to take (line 21)
Modes == {"photo", "video", "both"}

\* the files of the input tree, in no particular order
PathPool == << <<"a", ".", "j", "p", "g">>,
               <<"b", ".", "M", "O", "V">>,
               <<"c", ".", "J", "P", "G">>,
               <<"n", "o", "t", "e", "s", ".", "t", "x", "t">>,
               <<"R", "E", "A", "D", "M", "E">>,
               <<"d", ".", "m", "p", "4">>,
               <<"e", ".", "p", "n", "g">> >>

InputFiles == {PathPool[i] : i \in 1..NumFiles}

\* 2022-01-01 00:00:00, 2021-06-15 20:15:00, 2023-12-14 07:00:05 (UTC)
TimestampPool == <<1640995200, 1623788100, 1702537205, 1702537206>>

\* what os.path.getmtime(path) does: a timestamp, or OSError
\* (a broken symlink, a file removed since the walk listed it)
MtimeOutcomes ==
    {[exc |-> "", ts |-> TimestampPool[i]] : i \in 1..NumTimestamps}
    \cup {[exc |-> "OSError", ts |-> 0]}

\* EXIF DateTime values: two well-formed (one far in the future), an empty
\* one, one with the wrong separators, the all-zero stamp of an unset clock
ExifTexts ==
    { <<"2", "0", "2", "1", ":", "0", "6", ":", "1", "5", " ", "0", "8", ":", "0", "0", ":", "0", "0">>,
      <<"2", "0", "3", "7", ":", "1", "2", ":", "3", "1", " ", "2", "3", ":", "5", "9", ":", "5", "9">>,
      <<>>,
      <<"2", "0", "2", "1", "-", "0", "6", "-", "1", "5", " ", "0", "8", ":", "0", "0", ":", "0", "0">>,
      <<"0", "0", "0", "0", ":", "0", "0", ":", "0", "0", " ", "0", "0", ":", "0", "0", ":", "0", "0">> }

\* what piexif.load(path) and the lookup of the DateTime tag do: the load
\* raises, or the tag is absent (None), or it holds a text.  An exception of
\* class piexif.Invalidbox can only be raised by a piexif that defines it.
LoadOutcomes(hasInvalidbox) ==
    {[exc |-> e, present |-> FALSE, text |-> <<>>] :
        e \in {"InvalidImageDataError", "struct.error"}
              \cup (IF hasInvalidbox THEN {"Invalidbox"} ELSE {})}
    \cup {[exc |-> "", present |-> FALSE, text |-> <<>>]}
    \cup {[exc |-> "", present |-> TRUE, text |-> t] : t \in ExifTexts}

\* standard output of the creation_time probe
ProbeTexts ==
    { <<>>,
      <<"\n">>,
      <<"2", "0", "2", "3", "-", "1", "2", "-", "1", "4", "T", "1", "0", ":", "3", "0", ":", "0", "0", ".", "0", "0", "0", "0", "0", "0", "Z", "\n">>,
      <<"2", "0", "2", "1", "-", "0", "6", "-", "1", "5", "T", "2", "3", ":", "3", "0", ":", "0", "0", "Z", "\n">>,
      <<"1", "4", "/", "1", "2", "/", "2", "0", "2", "3", " ", "1", "0", ":", "3", "0", "\n">> }

\* what subprocess.check_output(probe_cmd, shell=True).decode() does: ffprobe
\* exits non-zero, or the call fails otherwise, or it yields text
ProbeOutcomes ==
    {[exc |-> e, present |-> FALSE, text |-> <<>>] : e \in {"CalledProcessError", "OSError"}}
    \cup {[exc |-> "", present |-> TRUE, text |-> t] : t \in ProbeTexts}

\* The batch run draws each file's metadata from a part of these sets that
\* yields two dates: 2022-01-01 from the mtime, 2021-06-15 from the metadata
BatchMtimes == {m \in MtimeOutcomes : m.exc # "" \/ m.ts = TimestampPool[1]}

BatchLoads(hasInvalidbox) ==
    {l \in LoadOutcomes(hasInvalidbox) :
        \/ l.exc = "InvalidImageDataError"
        \/ l.exc = "" /\ ~l.present
        \/ l.exc = "" /\ l.present /\ strptime(l.text).exc = ""
                     /\ strptime(l.text).val.year = 2021}

BatchProbes ==
    {p \in ProbeOutcomes :
        \/ p.exc = "CalledProcessError"
        \/ p.exc = "" /\ fromisoformat(ReplaceZ(strip(p.text))).exc = ""
                     /\ fromisoformat(ReplaceZ(strip(p.text))).val.year = 2021}

\* a call that made no metadata read
NoMeta == [exc |-> "", present |-> FALSE, text |-> <<>>]

(***************************************************************************)
(* Timestamp resolvers (lines 35-94).  A result is                          *)
(*   exc  "" for a return, else the class of the exception raised           *)
(*   val  the datetime returned                                             *)
(*   prov which return statement produced val                               *)
(*   log  the warnings printed, in order                                    *)
(***************************************************************************)
Returned(v, p, w) == [exc |-> "", val |-> v, prov |-> p, log |-> w]

Raised(e, w) == [exc |-> e, val |-> NoDT, prov |-> "", log |-> w]

\* the except clauses of get_photo_datetime (lines 53-58) for an exception
\* of class e raised in the try body: the first clause names
\* piexif.Invalidbox, which is looked up when the clause is tried
PhotoHandlers(path, e, fallback_dt, hasInvalidbox) ==
    IF ~hasInvalidbox
    THEN Raised("AttributeError", <<>>)
    ELSE IF e = "Invalidbox"
    THEN Returned(fallback_dt, "filesystem-mtime",
                  << [file |-> path, msg |-> "Invalid EXIF data"] >>)
    ELSE Returned(fallback_dt, "filesystem-mtime",
                  << [file |-> path, msg |-> "General error reading EXIF"] >>)

\* get_photo_datetime with a plausibility bound: an EXIF date later than
\* the mtime is not believed
get_photo_datetime_bounded(path, mtime, load, hasInvalidbox) ==
    IF mtime.exc # "" THEN Raised(mtime.exc, <<>>)
    ELSE
    LET fallback_dt == fromtimestamp(mtime.ts)
        date_str    == load.text
        parsed      == strptime(date_str)
    IN  IF load.exc # ""
        THEN PhotoHandlers(path, load.exc, fallback_dt, hasInvalidbox)
        ELSE IF load.present /\ date_str # <<>>
        THEN IF parsed.exc = ""
             THEN (IF parsed.val.year > fallback_dt.year
                   THEN Returned(fallback_dt, "filesystem-mtime", <<>>)
                   ELSE Returned(parsed.val, "embedded-metadata", <<>>))
             ELSE PhotoHandlers(path, parsed.exc, fallback_dt, hasInvalidbox)
        ELSE Returned(fallback_dt, "filesystem-mtime", <<>>)

get_photo_datetime(path, mtime, load, hasInvalidbox) ==
    IF mtime.exc # "" THEN Raised(mtime.exc, <<>>)
    ELSE
    LET fallback_dt == fromtimestamp(mtime.ts)
        date_str    == load.text
        parsed      == strptime(date_str)
    IN  IF load.exc # ""
        THEN PhotoHandlers(path, load.exc, fallback_dt, hasInvalidbox)
        ELSE IF load.present /\ date_str # <<>>
        THEN IF parsed.exc = ""
             THEN Returned(parsed.val, "embedded-metadata", <<>>)
             ELSE PhotoHandlers(path, parsed.exc, fallback_dt, hasInvalidbox)
        ELSE Returned(fallback_dt, "filesystem-mtime", <<>>)

\* get_video_datetime that prints a warning where line 90 passes
get_video_datetime_warns_on_failure(path, mtime, probe) ==
    IF mtime.exc # "" THEN Raised(mtime.exc, <<>>)
    ELSE
    LET fallback_dt       == fromtimestamp(mtime.ts)
        creation_time_str == strip(probe.text)
        parsed            == fromisoformat(ReplaceZ(creation_time_str))
    IN  IF probe.exc # ""
        THEN Returned(fallback_dt, "filesystem-mtime",
                      << [file |-> path, msg |-> "Error during ffprobe"] >>)
        ELSE IF creation_time_str # <<>>
        THEN IF parsed.exc = ""
             THEN Returned(parsed.val, "embedded-metadata", <<>>)
             ELSE Returned(fallback_dt, "filesystem-mtime",
                           << [file |-> path, msg |-> "Could not parse video creation time"] >>)
        ELSE Returned(fallback_dt, "filesystem-mtime", <<>>)

get_video_datetime(path, mtime, probe) ==
    IF mtime.exc # "" THEN Raised(mtime.exc, <<>>)
    ELSE
    LET fallback_dt       == fromtimestamp(mtime.ts)
        creation_time_str == strip(probe.text)
        parsed            == fromisoformat(ReplaceZ(creation_time_str))
    IN  IF probe.exc = "CalledProcessError"
        THEN Returned(fallback_dt, "filesystem-mtime", <<>>)
        ELSE IF probe.exc # ""
        THEN Returned(fallback_dt, "filesystem-mtime",
                      << [file |-> path, msg |-> "Error during ffprobe"] >>)
        ELSE IF creation_time_str # <<>>
        THEN IF parsed.exc = ""
             THEN Returned(parsed.val, "embedded-metadata", <<>>)
             ELSE Returned(fallback_dt, "filesystem-mtime",
                           << [file |-> path, msg |-> "Could not parse video creation time"] >>)
        ELSE Returned(fallback_dt, "filesystem-mtime", <<>>)

(***************************************************************************)
(* Sequence namer (lines 24-25, 97-103).                                    *)
(***************************************************************************)
\* defaultdict(int) with no key yet
EmptyTable == [k \in {} |-> 0]

\* date_counters[key] of a defaultdict(int): a missing key reads as 0
Count(counters, key) == IF key \in DOMAIN counters THEN counters[key] ELSE 0

\* the namer computing the number without storing it in the table
generate_name_without_store(dt, ext, counters) ==
    LET date_str == strftime(dt)
        counter  == Count(counters, date_str) + 1
    IN  [name     |-> date_str \o "_" \o ZeroPad(counter, 3) \o ext,
         date     |-> date_str,
         counter  |-> counter,
         counters |-> counters]

\* the namer reading the counter before it increments it
generate_name_read_then_increment(dt, ext, counters) ==
    LET date_str == strftime(dt)
        counter  == Count(counters, date_str)
    IN  [name     |-> date_str \o "_" \o ZeroPad(counter, 3) \o ext,
         date     |-> date_str,
         counter  |-> counter,
         counters |-> [k \in DOMAIN counters \cup {date_str} |->
                          IF k = date_str THEN counter + 1 ELSE counters[k]]]

\* returns the name, and the table after the call
generate_name_with_counter(dt, ext, counters) ==
    LET date_str == strftime(dt)
        counter  == Count(counters, date_str) + 1
    IN  [name     |-> date_str \o "_" \o ZeroPad(counter, 3) \o ext,
         date     |-> date_str,
         counter  |-> counter,
         counters |-> [k \in DOMAIN counters \cup {date_str} |->
                          IF k = date_str THEN counter ELSE counters[k]]]

(***************************************************************************)
(* Photo copier and video converter (lines 108-163).  The output directory  *)
(* is a function from file name to what was written there.  A result is     *)
(*   exc      "" or the class of the exception that left the function       *)
(*   counters the table when the function was left                          *)
(*   outdir   the output directory when the function was left               *)
(*   date     the date key the resolver's value gave, "" if it gave none    *)
(*   named    the namer's calls: none or one [date, counter, name]          *)
(***************************************************************************)
\* writing dst_path: an existing file of that name is replaced.  writes
\* counts how many times the name was written
WriteFile(outdir, name, entry) ==
    [n \in DOMAIN outdir \cup {name} |->
        IF n = name
        THEN [src |-> entry.src, audio |-> entry.audio,
              writes |-> IF name \in DOMAIN outdir THEN outdir[name].writes + 1 ELSE 1]
        ELSE outdir[n]]

\* what shutil.copy2(src, dst_path) does
CopyOutcomes == {"", "OSError"}

\* what the audio-codec probe yields
AudioOutcomes ==
    {[exc |-> "CalledProcessError", text |-> <<>>],
     [exc |-> "OSError", text |-> <<>>],
     [exc |-> "", text |-> <<"a", "a", "c", "\n">>]}

\* what subprocess.run(cmd, check=True) does: ffmpeg exits 0, exits
\* non-zero, or cannot be started
EncodeOutcomes == {"", "CalledProcessError", "FileNotFoundError"}

\* copy_photo that leaves a destination that exists alone
copy_photo_skip_existing(src, env, counters, outdir) ==
    LET dt  == get_photo_datetime(src, env.mtime, env.meta, env.lib)
        ext == Join(lower(splitext(src)))
        g   == generate_name_with_counter(dt.val, ext, counters)
    IN  IF dt.exc # ""
        THEN [exc |-> dt.exc, counters |-> counters, outdir |-> outdir,
              date |-> "", named |-> <<>>]
        ELSE IF env.io # ""
        THEN [exc |-> env.io, counters |-> g.counters, outdir |-> outdir,
              date |-> strftime(dt.val), named |-> << [date |-> g.date, counter |-> g.counter, name |-> g.name] >>]
        ELSE [exc |-> "", counters |-> g.counters,
              outdir |-> IF g.name \in DOMAIN outdir THEN outdir
                         ELSE WriteFile(outdir, g.name, [src |-> src, audio |-> "n/a"]),
              date |-> strftime(dt.val), named |-> << [date |-> g.date, counter |-> g.counter, name |-> g.name] >>]

\* copy_photo that gives the number back when the copy fails
copy_photo_returns_number(src, env, counters, outdir) ==
    LET dt  == get_photo_datetime(src, env.mtime, env.meta, env.lib)
        ext == Join(lower(splitext(src)))
        g   == generate_name_with_counter(dt.val, ext, counters)
    IN  IF dt.exc # ""
        THEN [exc |-> dt.exc, counters |-> counters, outdir |-> outdir,
              date |-> "", named |-> <<>>]
        ELSE IF env.io # ""
        THEN [exc |-> env.io, counters |-> counters, outdir |-> outdir,
              date |-> strftime(dt.val), named |-> << [date |-> g.date, counter |-> g.counter, name |-> g.name] >>]
        ELSE [exc |-> "", counters |-> g.counters,
              outdir |-> WriteFile(outdir, g.name, [src |-> src, audio |-> "n/a"]),
              date |-> strftime(dt.val), named |-> << [date |-> g.date, counter |-> g.counter, name |-> g.name] >>]

\* lines 119-125: dt is the resolver's value, g what the namer returned
copy_photo_to(src, env, outdir, dt, g) ==
    IF env.io # ""
    THEN [exc |-> env.io, counters |-> g.counters, outdir |-> outdir,
          date |-> strftime(dt), named |-> << [date |-> g.date, counter |-> g.counter, name |-> g.name] >>]
    ELSE [exc |-> "", counters |-> g.counters,
          outdir |-> WriteFile(outdir, g.name, [src |-> src, audio |-> "n/a"]),
          date |-> strftime(dt), named |-> << [date |-> g.date, counter |-> g.counter, name |-> g.name] >>]

\* lines 115-125: r is what the call of get_photo_datetime on line 114 did
copy_photo_dated(src, env, counters, outdir, r) ==
    IF r.exc # ""
    THEN [exc |-> r.exc, counters |-> counters, outdir |-> outdir,
          date |-> "", named |-> <<>>]
    ELSE copy_photo_to(src, env, outdir, r.val,
                       generate_name_with_counter(r.val, Join(lower(splitext(src))), counters))

copy_photo(src, env, counters, outdir) ==
    copy_photo_dated(src, env, counters, outdir,
                     get_photo_datetime(src, env.mtime, env.meta, env.lib))

\* lines 136-163: dt is the resolver's value, g what the namer returned
convert_video_to(src, env, outdir, dt, g) ==
    LET audio_codec == IF env.audio.exc = "CalledProcessError" THEN "unknown"
                       ELSE Join(strip(env.audio.text))
        audio_args  == IF audio_codec # "aac" THEN "-c:a aac -b:a 192k" ELSE "-c:a copy"
        left(e) == [exc |-> e, counters |-> g.counters, outdir |-> outdir,
                    date |-> strftime(dt),
                    named |-> << [date |-> g.date, counter |-> g.counter, name |-> g.name] >>]
    IN  IF env.audio.exc \notin {"", "CalledProcessError"}
        THEN left(env.audio.exc)
        ELSE IF env.io # ""
        THEN left(env.io)
        ELSE [left("") EXCEPT
                 !.outdir = WriteFile(outdir, g.name,
                                      [src |-> src, audio |-> audio_args])]

\* lines 132-163: r is what the call of get_video_datetime on line 131 did
convert_video_dated(src, env, counters, outdir, r) ==
    IF r.exc # ""
    THEN [exc |-> r.exc, counters |-> counters, outdir |-> outdir,
          date |-> "", named |-> <<>>]
    ELSE convert_video_to(src, env, outdir, r.val,
                          generate_name_with_counter(r.val, ".mp4", counters))

convert_video(src, env, counters, outdir) ==
    convert_video_dated(src, env, counters, outdir,
                        get_video_datetime(src, env.mtime, env.meta))

(***************************************************************************)
(* Dispatcher (lines 168-186).                                              *)
(***************************************************************************)
\* the classes the model raises; each is a subclass of Exception
ExceptionClasses ==
    {"OSError", "FileNotFoundError", "ValueError", "AttributeError",
     "CalledProcessError", "InvalidImageDataError", "struct.error", "Invalidbox"}

\* whether `except <clause>` catches an exception of class e
Catches(clause, e) ==
    \/ clause = "Exception" /\ e \in ExceptionClasses
    \/ clause = e
    \/ clause = "OSError" /\ e = "FileNotFoundError"

\* the branch taken when the extension is not lower-cased
Route_case_sensitive(path, mode) ==
    LET ext == Join(splitext(path))
    IN  IF ext \in PHOTO_EXTENSIONS /\ mode \in {"photo", "both"} THEN "photo"
        ELSE IF ext \in VIDEO_EXTENSIONS /\ mode \in {"video", "both"} THEN "video"
        ELSE "skip"

\* the branch process_file takes (lines 170-179)
Route(path, mode) ==
    LET ext == Join(lower(splitext(path)))
    IN  IF ext \in PHOTO_EXTENSIONS /\ mode \in {"photo", "both"} THEN "photo"
        ELSE IF ext \in VIDEO_EXTENSIONS /\ mode \in {"video", "both"} THEN "video"
        ELSE "skip"

\* what process_file leaves behind: the worker's result r, the exception esc
\* that escapes process_file, and what was printed for the file
Handled(route, r, esc, what) ==
    [route |-> route, exc |-> esc, result |-> what, counters |-> r.counters,
     outdir |-> r.outdir, date |-> r.date, named |-> r.named]

\* the try statement of the photo branch (lines 174-177): p is what
\* copy_photo did
photo_try(p) ==
    IF p.exc = "" THEN Handled("photo", p, "", "Copied")
    ELSE IF Catches("Exception", p.exc)
    THEN Handled("photo", p, "", "FATAL Error copying photo")
    ELSE Handled("photo", p, p.exc, "")

\* the try statement of the video branch (lines 181-186): v is what
\* convert_video did
video_try(v) ==
    IF v.exc = "" THEN Handled("video", v, "", "Converted")
    ELSE IF Catches("CalledProcessError", v.exc)
    THEN Handled("video", v, "", "FATAL Error converting video (FFmpeg failed)")
    ELSE IF Catches("Exception", v.exc)
    THEN Handled("video", v, "", "FATAL Error converting video")
    ELSE Handled("video", v, v.exc, "")

\* process_file whose photo branch catches OSError only
process_file_narrow(path, mode, env, counters, outdir) ==
    LET route == Route(path, mode)
        p == copy_photo(path, env, counters, outdir)
        v == convert_video(path, env, counters, outdir)
    IN  IF route = "photo"
        THEN IF p.exc = "" THEN Handled(route, p, "", "Copied")
             ELSE IF Catches("OSError", p.exc)
             THEN Handled(route, p, "", "FATAL Error copying photo")
             ELSE Handled(route, p, p.exc, "")
        ELSE IF route = "video"
        THEN video_try(v)
        ELSE [route |-> route, exc |-> "", result |-> "", counters |-> counters,
              outdir |-> outdir, date |-> "", named |-> <<>>]

\* a result is the worker's result with exc the exception that escapes
\* process_file, and result what was printed for the file
process_file(path, mode, env, counters, outdir) ==
    LET route == Route(path, mode)
    IN  IF route = "photo"
        THEN photo_try(copy_photo(path, env, counters, outdir))
        ELSE IF route = "video"
        THEN video_try(convert_video(path, env, counters, outdir))
        ELSE [route |-> route, exc |-> "", result |-> "", counters |-> counters,
              outdir |-> outdir, date |-> "", named |-> <<>>]

(***************************************************************************)
(* State.                                                                   *)
(***************************************************************************)
VARIABLES
    MODE,           \* the configured mode (line 22)
    has_Invalidbox, \* whether the installed piexif defines the Invalidbox line 53 names
    date_counters,  \* the process-wide table (line 25)
    outdir,         \* the files of OUTPUT_DIR
    pc,             \* where the current run is: "start", "walk", "done", "aborted"
    todo,           \* the files os.walk has still to yield in this run
    run,            \* which run of the script this is
    log,            \* one record per file process_file was called on in this run
    res             \* the last direct call of a resolver, with its inputs

vars == <<MODE, has_Invalidbox, date_counters, outdir, pc, todo, run, log, res>>

NoCall == [fn |-> "", path |-> <<>>, mtime |-> [exc |-> "", ts |-> 0], meta |-> NoMeta,
           out |-> Returned(NoDT, "", <<>>)]

\* the state of a freshly started process, before the first run, over an
\* empty output directory
Init ==
    /\ MODE \in Modes
    /\ has_Invalidbox \in BOOLEAN
    /\ date_counters = EmptyTable
    /\ outdir = [n \in {} |-> 0]
    /\ pc = "start"
    /\ todo = {}
    /\ run = 1
    /\ log = {}
    /\ res = NoCall

(***************************************************************************)
(* The batch run (lines 188-202).                                           *)
(***************************************************************************)
\* recurse_and_process up to the first file: ensure_dir, the banner
Start ==
    /\ pc = "start"
    /\ pc' = "walk"
    /\ todo' = InputFiles
    /\ UNCHANGED <<MODE, has_Invalidbox, date_counters, outdir, run, log, res>>

\* one iteration of the loop: process_file on the next file of the walk
Dispatch(path, env) ==
    \E r \in {process_file(path, MODE, env, date_counters, outdir)} :
        /\ pc = "walk"
        /\ path \in todo
        /\ todo' = todo \ {path}
        /\ date_counters' = r.counters
        /\ outdir' = r.outdir
        /\ log' = log \cup {[path |-> path, route |-> r.route, date |-> r.date,
                             named |-> r.named, result |-> r.result]}
        /\ pc' = IF r.exc = "" THEN "walk" ELSE "aborted"
        /\ UNCHANGED <<MODE, has_Invalidbox, run, res>>

NoAudio == [exc |-> "", text |-> <<>>]

DispatchPhoto ==
    \E path \in {p \in todo : Route(p, MODE) = "photo"},
       mtime \in BatchMtimes, load \in BatchLoads(has_Invalidbox), io \in CopyOutcomes :
        Dispatch(path, [mtime |-> mtime, meta |-> load, lib |-> has_Invalidbox,
                           audio |-> NoAudio, io |-> io])

DispatchVideo ==
    \E path \in {p \in todo : Route(p, MODE) = "video"},
       mtime \in BatchMtimes, probe \in BatchProbes, audio \in AudioOutcomes,
       io \in EncodeOutcomes :
        Dispatch(path, [mtime |-> mtime, meta |-> probe, lib |-> has_Invalidbox,
                           audio |-> audio, io |-> io])

DispatchOther ==
    \E path \in {p \in todo : Route(p, MODE) = "skip"} :
        Dispatch(path, [mtime |-> [exc |-> "", ts |-> 0], meta |-> NoMeta,
                           lib |-> has_Invalidbox, audio |-> NoAudio, io |-> ""])

\* the walk is exhausted: "Processing complete."
Complete ==
    /\ pc = "walk"
    /\ todo = {}
    /\ pc' = "done"
    /\ UNCHANGED <<MODE, has_Invalidbox, date_counters, outdir, todo, run, log, res>>

\* the script is started again over the same input/output pair: a new
\* process loads the module, so line 25 runs again
Rerun ==
    /\ pc = "done"
    /\ run < MaxRuns
    /\ run' = run + 1
    /\ date_counters' = EmptyTable
    /\ log' = {}
    /\ pc' = "start"
    /\ UNCHANGED <<MODE, has_Invalidbox, outdir, todo, res>>

\* one run of the script
Next == Start \/ DispatchPhoto \/ DispatchVideo \/ DispatchOther \/ Complete

Spec == Init /\ [][Next]_vars

\* the script run up to MaxRuns times over the same input/output pair
RerunNext == Next \/ Rerun

\* the modes that run one worker; "photo" is the one configured (line 22)
RerunInit == Init /\ MODE \in {"photo", "video"}

RerunSpec == RerunInit /\ [][RerunNext]_vars

(***************************************************************************)
(* The resolvers called on their own, on every input.                       *)
(***************************************************************************)
CallPhotoResolver ==
    \E path \in InputFiles, mtime \in MtimeOutcomes, load \in LoadOutcomes(has_Invalidbox) :
        /\ res' = [fn |-> "get_photo_datetime", path |-> path, mtime |-> mtime, meta |-> load,
                   out |-> get_photo_datetime(path, mtime, load, has_Invalidbox)]
        /\ UNCHANGED <<MODE, has_Invalidbox, date_counters, outdir, pc, todo, run, log>>

CallVideoResolver ==
    \E path \in InputFiles, mtime \in MtimeOutcomes, probe \in ProbeOutcomes :
        /\ res' = [fn |-> "get_video_datetime", path |-> path, mtime |-> mtime, meta |-> probe,
                   out |-> get_video_datetime(path, mtime, probe)]
        /\ UNCHANGED <<MODE, has_Invalidbox, date_counters, outdir, pc, todo, run, log>>

ResolverNext == CallPhotoResolver \/ CallVideoResolver

ResolverSpec == Init /\ [][ResolverNext]_vars

(***************************************************************************)
(* Properties.                                                              *)
(***************************************************************************)
\* the log records of the files the namer was called for in this run
NamerCalls == {r \in log : r.named # <<>>}

\* the namer's calls of this run for one date key
CallsFor(d) == {r.named[1] : r \in {x \in NamerCalls : x.named[1].date = d}}

\* the date keys the namer was called with in this run
DatesNamed == {r.named[1].date : r \in NamerCalls}

\* the records the step adds to the log
Added == log' \ log

\* C1: within one run no two calls of generate_name_with_counter return the
\* same (date, counter) pair or the same file name, and each call raises the
\* counter of its own date key by exactly 1 and changes no other key.
C1_UniquePerRun ==
    /\ [](\A a, b \in NamerCalls :
            a # b => /\ a.named[1].name # b.named[1].name
                     /\ <<a.named[1].date, a.named[1].counter>>
                        # <<b.named[1].date, b.named[1].counter>>)
    /\ [][\A r \in Added :
            r.named # <<>> =>
                \A k \in DOMAIN date_counters \cup DOMAIN date_counters' :
                    Count(date_counters', k)
                    = Count(date_counters, k) + (IF k = r.named[1].date THEN 1 ELSE 0)]_vars

\* a photo and a video of the same date were named in one run
C1_Witness ==
    \E a, b \in NamerCalls :
        /\ a.route = "photo" /\ b.route = "video"
        /\ a.named[1].date = b.named[1].date
        /\ a.named[1].counter # b.named[1].counter

\* the text the spec's format gives counter k of date d and extension e, k < 10
SpecName(d, k, e) == d \o "_00" \o Digits[k + 1] \o e

\* C2: the k-th call of the namer for a date, in call order, gets counter k:
\* the counters of a date are exactly 1..N, written 001..00N, whatever calls
\* for other dates come in between, and the first file of a date gets 001.
C2_CountersInCallOrder ==
    /\ [](\A d \in DatesNamed :
            {c.counter : c \in CallsFor(d)} = 1..Cardinality(CallsFor(d)))
    /\ [][\A r \in Added :
            r.named # <<>> =>
                LET c == r.named[1]
                    e == IF r.route = "video" THEN ".mp4"
                         ELSE Join(lower(splitext(r.path)))
                IN  /\ c.counter = Cardinality(CallsFor(c.date)) + 1
                    /\ c.name = SpecName(c.date, c.counter, e)]_vars

\* two files of 2021-06-15 got 001 and 002 in a run that also named a file
\* of 2022-01-01, which got 001
C2_Witness ==
    /\ {c.name : c \in CallsFor("2021_06_15")}
       \in {{"2021_06_15_001.jpg", "2021_06_15_002.jpg"},
            {"2021_06_15_001.jpg", "2021_06_15_002.mp4"},
            {"2021_06_15_001.mp4", "2021_06_15_002.jpg"}}
    /\ {c.counter : c \in CallsFor("2022_01_01")} = {1}

\* a resolver was called after its mtime read returned, so that it went on
\* to read the metadata
MetadataRead == res.fn # "" /\ res.mtime.exc = ""

\* C3: a resolver call always returns a datetime and raises nothing,
\* whatever the metadata reader, the prober or the mtime read do.
C3_ResolverNeverFails == res.fn # "" => res.out.exc = ""

\* the photo's capture time is missing, malformed or unreadable
PhotoMetadataUnusable ==
    \/ res.meta.exc # ""
    \/ ~res.meta.present
    \/ strptime(res.meta.text).exc # ""

\* C4: for every photo whose capture-time metadata is missing, malformed or
\* unreadable, get_photo_datetime returns the mtime and logs exactly one
\* warning.
C4_PhotoFallbackWarnsOnce ==
    (res.fn = "get_photo_datetime" /\ MetadataRead /\ PhotoMetadataUnusable)
    => /\ res.out.exc = ""
       /\ res.out.val = fromtimestamp(res.mtime.ts)
       /\ Len(res.out.log) = 1

\* what the creation-time probe printed, stripped
ProbeText == strip(res.meta.text)

\* C5: when the creation-time prober exits with a failure status or prints
\* nothing, get_video_datetime returns the mtime and logs no warning; it
\* logs a warning only when the prober prints text that is not ISO-8601 or
\* when calling it fails in another way, and then too it returns the mtime.
C5_VideoFallback ==
    (res.fn = "get_video_datetime" /\ MetadataRead)
    => /\ (res.meta.exc = "CalledProcessError" \/ (res.meta.exc = "" /\ ProbeText = <<>>))
          => res.out = Returned(fromtimestamp(res.mtime.ts), "filesystem-mtime", <<>>)
       /\ res.out.log # <<>>
          => /\ \/ res.meta.exc \notin {"", "CalledProcessError"}
                \/ /\ res.meta.exc = ""
                   /\ ProbeText # <<>>
                   /\ fromisoformat(ReplaceZ(ProbeText)).exc # ""
             /\ Len(res.out.log) = 1
             /\ res.out.exc = ""
             /\ res.out.val = fromtimestamp(res.mtime.ts)

\* the prober failed and the mtime came back silently
C5_Witness ==
    /\ res.fn = "get_video_datetime"
    /\ res.meta.exc = "CalledProcessError"
    /\ res.out.exc = ""
    /\ res.out.val = DT(2022, 1, 1, 0, 0, 0)
    /\ res.out.log = <<>>

\* the value the metadata read of the last call parses to: exc is "" when
\* there is one
ParsedMetadata ==
    IF res.meta.exc # "" \/ ~res.meta.present
    THEN [exc |-> "none", val |-> NoDT]
    ELSE IF res.fn = "get_photo_datetime"
    THEN (IF res.meta.text = <<>> THEN [exc |-> "none", val |-> NoDT]
          ELSE strptime(res.meta.text))
    ELSE (IF ProbeText = <<>> THEN [exc |-> "none", val |-> NoDT]
          ELSE fromisoformat(ReplaceZ(ProbeText)))

\* C6: when the embedded metadata is present and parses, the resolver
\* returns exactly the parsed value, with no warning, whatever the mtime and
\* however far the parsed date is from it; the mtime is returned only when
\* the metadata gave no parsed value.
C6_MetadataWins ==
    MetadataRead
    => /\ ParsedMetadata.exc = ""
          => res.out = Returned(ParsedMetadata.val, "embedded-metadata", <<>>)
       /\ (res.out.exc = "" /\ res.out.prov = "filesystem-mtime")
          => ParsedMetadata.exc # ""

\* an EXIF date fifteen years after the mtime is returned as it is
C6_Witness ==
    /\ res.fn = "get_photo_datetime"
    /\ res.mtime.ts = 1640995200
    /\ res.out.exc = ""
    /\ res.out.val = DT(2037, 12, 31, 23, 59, 59)
    /\ res.out.log = <<>>

\* the extension sets of the spec's external interface
SpecPhotoExt == {".jpg", ".jpeg", ".png"}

SpecVideoExt == {".mp4", ".mkv", ".avi", ".mov", ".wmv", ".flv", ".webm", ".mpg", ".mpeg",
                 ".m4v", ".3gp", ".3g2", ".ts", ".mts", ".m2ts", ".vob"}

\* C7: process_file runs the photo copier exactly on the files whose
\* lower-cased extension is a photo extension when the mode is photo or
\* both, and the video converter exactly on those whose extension is a video
\* extension when the mode is video or both; every other file is skipped:
\* no resolver or namer call, the table and the output directory unchanged,
\* no error.
C7_ModeGating ==
    [][\A r \in Added :
        LET e == Join(lower(splitext(r.path)))
            photo == e \in SpecPhotoExt /\ MODE \in {"photo", "both"}
            video == e \in SpecVideoExt /\ MODE \in {"video", "both"}
        IN  /\ photo => r.result \in {"Copied", "FATAL Error copying photo"}
            /\ (video /\ ~photo)
               => r.result \in {"Converted", "FATAL Error converting video",
                                "FATAL Error converting video (FFmpeg failed)"}
            /\ (~photo /\ ~video)
               => /\ r.result = "" /\ r.date = "" /\ r.named = <<>>
                  /\ date_counters' = date_counters
                  /\ outdir' = outdir
                  /\ pc' = "walk"]_vars

\* in one run a photo was copied, a video skipped by the mode and a file of
\* neither kind skipped
C7_Witness ==
    /\ MODE = "photo"
    /\ \E r \in log : r.result = "Copied"
    /\ \E r \in log : Join(lower(splitext(r.path))) = ".mov" /\ r.result = ""
    /\ \E r \in log : Join(lower(splitext(r.path))) = ".txt" /\ r.result = ""

\* the run can take a step: it has not started, or the walk has a file
\* left, which one of the three branches takes, or it can complete
CanStep ==
    \/ pc = "start"
    \/ pc = "walk" /\ todo = {}
    \/ pc = "walk" /\ \E p \in todo : Route(p, MODE) \in {"photo", "video", "skip"}

\* C8: no failure of a photo copy or a video conversion leaves
\* process_file, so the run is never aborted; until "Processing complete"
\* the run can always take a step, every step of the walk takes one file
\* off it, so the run reaches the end, and at the end every file was
\* dispatched exactly once, whatever failed.
C8_BatchSurvives ==
    /\ [](pc # "aborted")
    /\ [](pc # "done" => CanStep)
    /\ [][(pc = "walk" /\ pc' # "done")
           => /\ todo' \subseteq todo
              /\ Cardinality(todo') = Cardinality(todo) - 1
              /\ Cardinality(log') = Cardinality(log) + 1
              /\ {r.path : r \in Added} = todo \ todo']_vars
    /\ [](pc = "done" => /\ todo = {}
                         /\ {r.path : r \in log} = InputFiles
                         /\ Cardinality(log) = NumFiles)

\* a run completed in which a photo copy and a video conversion failed
C8_Witness ==
    /\ pc = "done"
    /\ \E r \in log : r.result = "FATAL Error copying photo"
    /\ \E r \in log : r.result = "FATAL Error converting video (FFmpeg failed)"

OutputFilesOf(d) == {n \in DOMAIN outdir : \E c \in CallsFor(d) : c.name = n}

\* C10: the counter of each date equals the number of files of this run
\* that the resolver gave that date, whether their copy or conversion then
\* succeeded or not, and is at least the number of output files of that
\* date; no other key is in the table, and the number of a file that failed
\* is given to no other file.
C10_CounterCountsAttempts ==
    /\ DOMAIN date_counters = {r.date : r \in {x \in log : x.date # ""}}
    /\ \A d \in DOMAIN date_counters :
          /\ date_counters[d] = Cardinality({r \in log : r.date = d})
          /\ date_counters[d] >= Cardinality(OutputFilesOf(d))
    /\ \A r \in log :
          r.date # "" => /\ r.named # <<>>
                         /\ r.named[1].date = r.date
    /\ \A a, b \in NamerCalls :
          (a # b /\ a.result \notin {"Copied", "Converted"} /\ a.date = b.date)
          => a.named[1].counter # b.named[1].counter

\* the first file of 2022-01-01 failed and the second was written as 002
C10_Witness ==
    /\ Count(date_counters, "2022_01_01") = 2
    /\ \E a \in NamerCalls : /\ a.named[1].name = "2022_01_01_001.jpg"
                             /\ a.result = "FATAL Error copying photo"
    /\ "2022_01_01_001.jpg" \notin DOMAIN outdir
    /\ \E n \in {"2022_01_01_002.jpg", "2022_01_01_002.mp4"} : n \in DOMAIN outdir

====
